---- MODULE Spec2Model ----
(***************************************************************************)
(* A model of src/main.py: the contact-book assistant (Field, Record,      *)
(* AddressBook, Bot and the interactive loop of main).                     *)
(*                                                                         *)
(* Python strings are sequences of one-character strings, so that          *)
(* prefixes, substrings, lowercasing and the regular expressions of the    *)
(* source are computed character by character.  Python's None is the       *)
(* value None below, which no character sequence equals.                   *)
(***************************************************************************)
EXTENDS Integers, Sequences, FiniteSets, TLC

VARIABLES
    pc,            \* where main is: "prompt" (in input), "handled" (a command
                   \* has been carried out) or "done" (main has returned)
    address_book,  \* bot.address_book.data: the records in dict order
    contacts_csv,  \* the rows of contacts.csv
    parsed,        \* what parse_input returned for the last line read
    out,           \* what the last command printed, as message tags
    clock,         \* what datetime.now().date() gave the last command
    days_remaining,\* the day count the last command computed
    returned,      \* what main returned, "" while it runs
    line,          \* the input string handed to parse_input
    toks,          \* the argument tokens the line was typed from
    rec,           \* a Record used on its own
    raised,        \* whether the last Record operation raised ValueError
    s_query,       \* the argument of the last AddressBook.search_record
    s_found        \* the list the last AddressBook.search_record returned

vars == <<pc, address_book, contacts_csv, parsed, out, clock, days_remaining,
          returned, line, toks, rec, raised, s_query, s_found>>

-----------------------------------------------------------------------------
(* Strings *)

None == <<"None">>

Truthy(v) == v # None /\ v # <<>>

Range(s) == {s[i] : i \in 1..Len(s)}

Min(S) == CHOOSE x \in S : \A y \in S : x <= y

Max(S) == CHOOSE x \in S : \A y \in S : x >= y

ascii_lowercase == <<"a", "b", "c", "d", "e", "f", "g", "h", "i", "j", "k", "l", "m", "n", "o", "p", "q", "r", "s", "t", "u", "v", "w", "x", "y", "z">>

ascii_uppercase == <<"A", "B", "C", "D", "E", "F", "G", "H", "I", "J", "K", "L", "M", "N", "O", "P", "Q", "R", "S", "T", "U", "V", "W", "X", "Y", "Z">>

Letter == Range(ascii_lowercase) \cup Range(ascii_uppercase)

Digit == {"0", "1", "2", "3", "4", "5", "6", "7", "8", "9"}

Whitespace == {" ", "\t", "\n"}

QuoteChars == {"\"", "'"}

Uppercase == Range(ascii_uppercase)

NameChars == Letter \cup {"-", " "}

LowerChar(c) ==
    IF c \in Uppercase
    THEN ascii_lowercase[CHOOSE i \in 1..Len(ascii_uppercase) : ascii_uppercase[i] = c]
    ELSE c

\* str.lower
lower(s) == [i \in 1..Len(s) |-> LowerChar(s[i])]

\* str.startswith
startswith(s, prefix) ==
    Len(prefix) <= Len(s) /\ SubSeq(s, 1, Len(prefix)) = prefix

\* the `in` operator on two strings
Contains(s, sub) ==
    \E i \in 0..(Len(s) - Len(sub)) : SubSeq(s, i + 1, i + Len(sub)) = sub

\* str.strip(chars): drops the leading and trailing characters that are in chars
strip(s, chars) ==
    LET keep == {i \in 1..Len(s) : s[i] \notin chars}
    IN  IF keep = {} THEN <<>> ELSE SubSeq(s, Min(keep), Max(keep))

\* what `$` allows at the end of a pattern: the end of the string, or one
\* newline before the end of the string
DollarBody(s) ==
    IF Len(s) > 0 /\ s[Len(s)] = "\n" THEN {s, SubSeq(s, 1, Len(s) - 1)} ELSE {s}

\* re.match(r'^[a-zA-Z\- ]+$', arg)
MatchName(arg) ==
    \E b \in DollarBody(arg) :
        Len(b) >= 1 /\ \A i \in 1..Len(b) : b[i] \in NameChars

\* re.match(r'^\d{4}/\d{2}/\d{2}$', arg)
MatchBirthday(arg) ==
    \E b \in DollarBody(arg) :
        /\ Len(b) = 10
        /\ \A i \in {1, 2, 3, 4, 6, 7, 9, 10} : b[i] \in Digit
        /\ b[5] = "/" /\ b[8] = "/"

PhoneDigits == 11

\* re.match(r'^\d{11}$', arg)
MatchPhone(arg) ==
    \E b \in DollarBody(arg) :
        Len(b) = PhoneDigits /\ \A i \in 1..Len(b) : b[i] \in Digit

-----------------------------------------------------------------------------
(* Bot.parse_input *)

kw_help == <<"h", "e", "l", "p">>
kw_hello == <<"h", "e", "l", "l", "o">>
kw_show_all == <<"s", "h", "o", "w", " ", "a", "l", "l">>
kw_show_phones == <<"s", "h", "o", "w", " ", "p", "h", "o", "n", "e", "s">>
kw_show_birthday == <<"s", "h", "o", "w", " ", "b", "i", "r", "t", "h", "d", "a", "y">>
kw_days_to_birthday == <<"d", "a", "y", "s", " ", "t", "o", " ", "b", "i", "r", "t", "h", "d", "a", "y">>
kw_add == <<"a", "d", "d">>
kw_change == <<"c", "h", "a", "n", "g", "e">>
kw_delete == <<"d", "e", "l", "e", "t", "e">>
kw_search_name == <<"s", "e", "a", "r", "c", "h", " ", "n", "a", "m", "e">>

\* a keyword table in which `show` alone stands where `show all` should
commands_show == <<kw_help, kw_hello, SubSeq(kw_show_all, 1, 4), kw_show_phones,
                   kw_show_birthday, kw_days_to_birthday, kw_add, kw_change,
                   kw_delete, kw_search_name>>

\* the keys of Bot.commands, in dict order
commands == <<kw_help, kw_hello, kw_show_all, kw_show_phones, kw_show_birthday,
              kw_days_to_birthday, kw_add, kw_change, kw_delete, kw_search_name>>

exit_commands == {<<"q">>, <<"q", "u", "i", "t">>, <<"c", "l", "o", "s", "e">>,
                  <<"e", "x", "i", "t">>}

\* re.findall(r'\".*?\"|\'.*?\'|\S+', s), scanning from position i
RECURSIVE findall(_, _)
findall(s, i) ==
    IF i > Len(s) THEN <<>>
    ELSE LET closing == {j \in (i + 1)..Len(s) :
                            /\ s[j] = s[i]
                            /\ \A k \in (i + 1)..(j - 1) : s[k] # "\n"}
             stops == {j \in i..Len(s) : s[j] \in Whitespace}
             last == IF stops = {} THEN Len(s) ELSE Min(stops) - 1
         IN  IF s[i] \in QuoteChars /\ closing # {}
             THEN <<SubSeq(s, i, Min(closing))>> \o findall(s, Min(closing) + 1)
             ELSE IF s[i] \notin Whitespace
             THEN <<SubSeq(s, i, last)>> \o findall(s, last + 1)
             ELSE findall(s, i + 1)

\* arg.strip('"\'') if arg[0] in '\'"' else arg
unquote(arg) == IF arg[1] \in QuoteChars THEN strip(arg, QuoteChars) ELSE arg

NonePhones == <<None>>

\* a loop that keeps the first name it meets instead of the last
RECURSIVE classify_first(_, _, _)
classify_first(arguments, i, acc) ==
    IF i > Len(arguments) THEN acc
    ELSE LET arg == arguments[i]
         IN  IF MatchName(arg)
             THEN classify_first(arguments, i + 1,
                     IF acc.name = None THEN [acc EXCEPT !.name = arg] ELSE acc)
             ELSE IF MatchBirthday(arg)
             THEN classify_first(arguments, i + 1, [acc EXCEPT !.birthday = arg])
             ELSE IF MatchPhone(arg)
             THEN classify_first(arguments, i + 1,
                           [acc EXCEPT !.phones = Append(acc.phones, arg)])
             ELSE classify_first(arguments, i + 1, acc)

\* the for loop over the arguments, given the values parsed so far
RECURSIVE classify(_, _, _)
classify(arguments, i, acc) ==
    IF i > Len(arguments) THEN acc
    ELSE LET arg == arguments[i]
         IN  IF MatchName(arg)
             THEN classify(arguments, i + 1, [acc EXCEPT !.name = arg])
             ELSE IF MatchBirthday(arg)
             THEN classify(arguments, i + 1, [acc EXCEPT !.birthday = arg])
             ELSE IF MatchPhone(arg)
             THEN classify(arguments, i + 1,
                           [acc EXCEPT !.phones = Append(acc.phones, arg)])
             ELSE classify(arguments, i + 1, acc)

parse_input(input_string, cmds) ==
    LET input_string_lower == lower(input_string)
        hits == {k \in 1..Len(cmds) :
                    /\ Len(cmds[k]) <= Len(input_string)
                    /\ startswith(input_string_lower, lower(cmds[k]))}
    IN  IF hits = {}
        THEN [command |-> None, name |-> None, birthday |-> None,
              phones |-> NonePhones]
        ELSE LET command == cmds[Min(hits)]
                 rest_of_string ==
                     strip(SubSeq(input_string, Len(command) + 1, Len(input_string)),
                           Whitespace)
                 found_args == findall(rest_of_string, 1)
                 arguments == [i \in 1..Len(found_args) |-> unquote(found_args[i])]
             IN  classify(arguments, 1,
                          [command |-> command, name |-> None, birthday |-> None,
                           phones |-> <<>>])

-----------------------------------------------------------------------------
(* datetime: strptime with '%Y/%m/%d', date.replace, date subtraction *)

DigitValue(c) == CHOOSE n \in 0..9 : <<"0", "1", "2", "3", "4", "5", "6", "7", "8", "9">>[n + 1] = c

RECURSIVE int(_)
int(s) == IF s = <<>> THEN 0
          ELSE 10 * int(SubSeq(s, 1, Len(s) - 1)) + DigitValue(s[Len(s)])

AllDigits(s) == \A i \in 1..Len(s) : s[i] \in Digit

isleap(y) == (y % 4 = 0) /\ ((y % 100 # 0) \/ (y % 400 = 0))

days_in_month(y, m) ==
    IF m = 2 THEN (IF isleap(y) THEN 29 ELSE 28)
    ELSE IF m \in {4, 6, 9, 11} THEN 30 ELSE 31

\* the date a failed conversion stands for: no date has year 0
ValueError == [year |-> 0, month |-> 0, day |-> 0]

\* datetime.strptime(s, '%Y/%m/%d').date(): %Y is four digits, %m and %d
\* are one or two digits, the whole string must be consumed and the three
\* numbers must name a day of the calendar
strptime(s) ==
    LET slashes == {i \in 1..Len(s) : s[i] = "/"}
    IN  IF s = None \/ Cardinality(slashes) # 2 THEN ValueError
        ELSE LET i1 == Min(slashes)
                 i2 == Max(slashes)
                 Y == SubSeq(s, 1, i1 - 1)
                 m == SubSeq(s, i1 + 1, i2 - 1)
                 d == SubSeq(s, i2 + 1, Len(s))
                 \* %d also reads a blank followed by one digit
                 dd == IF Len(d) = 2 /\ d[1] = " " THEN Tail(d) ELSE d
             IN  IF /\ Len(Y) = 4 /\ AllDigits(Y)
                    /\ Len(m) \in {1, 2} /\ AllDigits(m)
                    /\ Len(dd) \in {1, 2} /\ AllDigits(dd)
                    /\ int(Y) >= 1
                    /\ int(m) \in 1..12
                    /\ int(dd) >= 1
                    /\ int(dd) <= days_in_month(int(Y), int(m))
                 THEN [year |-> int(Y), month |-> int(m), day |-> int(dd)]
                 ELSE ValueError

\* date.replace(year=y): ValueError when the day does not exist in year y
replace_year(date, y) ==
    IF date.day <= days_in_month(y, date.month)
    THEN [date EXCEPT !.year = y]
    ELSE ValueError

RECURSIVE days_before_month(_, _)
days_before_month(y, m) ==
    IF m = 1 THEN 0 ELSE days_before_month(y, m - 1) + days_in_month(y, m - 1)

\* date.toordinal
toordinal(date) ==
    LET y == date.year - 1
    IN  y * 365 + (y \div 4) - (y \div 100) + (y \div 400)
        + days_before_month(date.year, date.month) + date.day

\* today > next_birthday
date_gt(a, b) == toordinal(a) > toordinal(b)

-----------------------------------------------------------------------------
(* Field, Name, Birthday, Phone, Record *)

\* Field.__init__, which Name, Birthday and Phone inherit: the value is
\* stored as given, the value setters are not used
Field(value) == value

\* the setter of Birthday.value: the new value, or ValueError raised
Birthday_set(new_value) == strptime(new_value) # ValueError

\* the setter of Phone.value: the new value, or ValueError raised
Phone_set(new_value) == MatchPhone(new_value)

\* Record.add_phone
add_phone(record, phone) ==
    [record EXCEPT !.phones = Append(@, Field(phone))]

RECURSIVE add_phones(_, _)
add_phones(record, phones) ==
    IF phones = <<>> THEN record
    ELSE add_phones(add_phone(record, Head(phones)), Tail(phones))

\* Record.__init__
Record(name, birthday, phones) ==
    add_phones([name |-> Field(name),
                birthday |-> IF Truthy(birthday) THEN Field(birthday) ELSE None,
                phones |-> <<>>],
               IF phones = NonePhones THEN <<>> ELSE phones)

\* Record.edit_phone: the record afterwards and whether ValueError was raised
edit_phone(record, old_phone, new_phone) ==
    LET at == {i \in 1..Len(record.phones) : record.phones[i] = old_phone}
    IN  IF at = {} THEN [record |-> record, raised |-> FALSE]
        ELSE IF Phone_set(new_phone)
        THEN [record |-> [record EXCEPT !.phones[Min(at)] = new_phone],
              raised |-> FALSE]
        ELSE [record |-> record, raised |-> TRUE]

\* Record.delete_phone
delete_phone(record, phone) ==
    [record EXCEPT !.phones = SelectSeq(@, LAMBDA p : p # phone)]

-----------------------------------------------------------------------------
(* AddressBook: the dict `data` is the sequence of its items in insertion  *)
(* order, each item a key and the record stored under it                   *)

Keys(data) == {data[i].key : i \in 1..Len(data)}

IndexOf(data, key) == CHOOSE i \in 1..Len(data) : data[i].key = key

\* self.data[name]
Get(data, name) == data[IndexOf(data, name)].record

\* self.data[key] = record: a new key goes last, an old key keeps its place
SetItem(data, key, record) ==
    IF key \in Keys(data)
    THEN [data EXCEPT ![IndexOf(data, key)] = [key |-> key, record |-> record]]
    ELSE Append(data, [key |-> key, record |-> record])

\* an add_record that keeps the records in a list
add_record_append(data, record) ==
    Append(data, [key |-> record.name, record |-> record])

\* AddressBook.add_record
add_record(data, record) == SetItem(data, record.name, record)

\* a delete that empties the dict
delete_record_clear(data, name) ==
    IF name \in Keys(data) THEN <<>> ELSE data

\* AddressBook.delete_record
delete_record(data, name) ==
    IF name \in Keys(data)
    THEN SelectSeq(data, LAMBDA item : item.key # name)
    ELSE data

\* a search that takes a phone to match when the query begins it
RECURSIVE search_from_prefix(_, _, _, _)
search_from_prefix(data, query, i, found_records) ==
    IF i > Len(data) THEN [found |-> found_records, exc |-> ""]
    ELSE IF query = None \/ data[i].key = None
    THEN [found |-> found_records, exc |-> "AttributeError"]
    ELSE LET name == data[i].key
             by_name == IF Contains(lower(name), lower(query))
                        THEN <<name>> ELSE <<>>
             phones == data[i].record.phones
             by_phone == [k \in 1..Len(SelectSeq(phones,
                                                 LAMBDA p : startswith(p, query)))
                             |-> name]
         IN  search_from_prefix(data, query, i + 1,
                                found_records \o by_name \o by_phone)

\* AddressBook.search_record from item i on, with the names found so far;
\* None has no lower(): AttributeError
RECURSIVE search_from(_, _, _, _)
search_from(data, query, i, found_records) ==
    IF i > Len(data) THEN [found |-> found_records, exc |-> ""]
    ELSE IF query = None \/ data[i].key = None
    THEN [found |-> found_records, exc |-> "AttributeError"]
    ELSE LET name == data[i].key
             by_name == IF Contains(lower(name), lower(query))
                        THEN <<name>> ELSE <<>>
             phones == data[i].record.phones
             by_phone == [k \in 1..Len(SelectSeq(phones, LAMBDA p : query = p))
                             |-> name]
         IN  search_from(data, query, i + 1, found_records \o by_name \o by_phone)

search_record(data, query) == search_from(data, query, 1, <<>>)

\* str(phones_list): the repr of a list of strings
RECURSIVE repr_items(_)
repr_items(phones_list) ==
    IF phones_list = <<>> THEN <<>>
    ELSE <<"'">> \o Head(phones_list) \o <<"'">>
         \o (IF Len(phones_list) > 1 THEN <<",", " ">> ELSE <<>>)
         \o repr_items(Tail(phones_list))

str_list(phones_list) == <<"[">> \o repr_items(phones_list) \o <<"]">>

\* the row writer.writerow writes for a record; csv writes None as ''
to_row(record) ==
    [Name |-> IF record.name = None THEN <<>> ELSE record.name,
     Birthday |-> IF record.birthday # None THEN record.birthday ELSE <<>>,
     Phones |-> str_list(record.phones)]

\* AddressBook.save_to_csv: the rows of the file written
save_to_csv(data) == [i \in 1..Len(data) |-> to_row(data[i].record)]

\* eval(phones_str) for the text of a list of quoted strings, from
\* position i on (after the opening bracket or after an item)
RECURSIVE eval_items(_, _)
eval_items(s, i) ==
    IF i > Len(s) \/ s[i] # "'" THEN <<>>
    ELSE LET closing == Min({j \in (i + 1)..Len(s) : s[j] = "'"})
             item == SubSeq(s, i + 1, closing - 1)
         IN  <<item>> \o eval_items(s, closing + 3)

eval(phones_str) == eval_items(phones_str, 2)

\* a loop body that adds the phones of the row to a record the dict has
load_row_merge(data, row) ==
    IF row.Name \in Keys(data)
    THEN SetItem(data, row.Name, add_phones(Get(data, row.Name), eval(row.Phones)))
    ELSE LET record == Record(row.Name, None, <<>>)
             with_birthday == IF row.Birthday # <<>>
                              THEN [record EXCEPT !.birthday = Field(row.Birthday)]
                              ELSE record
         IN  add_record(data, add_phones(with_birthday, eval(row.Phones)))

\* the body of the for loop of AddressBook.load_from_csv
load_row(data, row) ==
    LET record == Record(row.Name, None, <<>>)
        with_birthday == IF row.Birthday # <<>>
                         THEN [record EXCEPT !.birthday = Field(row.Birthday)]
                         ELSE record
    IN  add_record(data, add_phones(with_birthday, eval(row.Phones)))

\* AddressBook.load_from_csv
RECURSIVE load_from_csv(_, _)
load_from_csv(data, rows) ==
    IF rows = <<>> THEN data
    ELSE load_from_csv(load_row(data, Head(rows)), Tail(rows))

-----------------------------------------------------------------------------
(* The handlers of Bot.  Each is given the dict and the parsed arguments   *)
(* and yields the dict afterwards, the messages printed, the exception     *)
(* that escaped ("" when none did) and the day count it printed.           *)

NoDays == -1

Result(data, msgs, exc) == [data |-> data, out |-> msgs, exc |-> exc, days |-> NoDays]

If(cond, msgs) == IF cond THEN msgs ELSE <<>>

\* Bot.handle_help, Bot.handle_hello
handle_help(data) == Result(data, <<"Usage">>, "")

handle_hello(data) == Result(data, <<"Hi there">>, "")

\* Bot.handle_show_all with AddressBook.show_all_records
handle_show_all(data) ==
    Result(data, IF data = <<>> THEN <<"No records found">> ELSE <<"Records">>, "")

\* a handle_show_phones that looks the record up with setdefault
handle_show_phones_setdefault(data, name) ==
    IF name \in Keys(data) THEN Result(data, <<"Phone numbers">>, "")
    ELSE Result(SetItem(data, name, Record(name, None, <<>>)),
                <<"Phone numbers">>, "")

\* Bot.handle_show_phones: args is (name, birthday, phones), never empty
handle_show_phones(data, name) ==
    Result(data, IF name \in Keys(data) THEN <<"Phone numbers">>
                 ELSE <<"Record not found">>, "")

\* Bot.handle_show_bday
handle_show_bday(data, name) ==
    Result(data, IF name \in Keys(data) THEN <<"Birthday is">>
                 ELSE <<"Record not found">>, "")

\* Bot.handle_d2b with datetime.now().date() = today
handle_d2b(data, name, today) ==
    LET missing == If(~Truthy(name), <<"Missing contact name">>)
    IN  IF name \notin Keys(data)
        THEN Result(data, missing \o <<"Contact not found">>, "")
        ELSE IF Get(data, name).birthday = None
        THEN Result(data, missing \o <<"No birthday specified">>, "")
        ELSE LET born == strptime(Get(data, name).birthday)
                 this_year == IF born = ValueError THEN ValueError
                              ELSE replace_year(born, today.year)
                 next_birthday ==
                     IF this_year = ValueError THEN ValueError
                     ELSE IF date_gt(today, this_year)
                     THEN replace_year(this_year, today.year + 1)
                     ELSE this_year
             IN  IF next_birthday = ValueError
                 THEN Result(data, missing, "ValueError")
                 ELSE [data |-> data, out |-> missing \o <<"Birthday is in">>,
                       exc |-> "",
                       days |-> toordinal(next_birthday) - toordinal(today)]

\* the phones of the list that are not 11 digits
BadPhones(phones) == SelectSeq(phones, LAMBDA p : ~MatchPhone(p))

\* Bot.handle_add: no check returns, the record is built and stored always
handle_add(data, name, birthday, phones) ==
    LET record == Record(name, birthday, phones)
    IN  Result(add_record(data, record),
               If(~Truthy(name), <<"Missing name">>)
               \o If(Truthy(birthday) /\ strptime(birthday) = ValueError,
                     <<"Incorrect date format">>)
               \o [i \in 1..Len(BadPhones(phones)) |-> "Phone numbers must be 11-digit"]
               \o If(name \in Keys(data), <<"Name already exists">>)
               \o <<"Added">>,
               "")

\* a handle_change that stores a new record when there is none to change
handle_change_upsert(data, name, birthday, phones) ==
    LET missing == If(~Truthy(name), <<"Missing name">>)
    IN  IF name \notin Keys(data)
        THEN Result(add_record(data, Record(name, birthday, phones)),
                    missing \o <<"Record not found">>, "")
        ELSE LET existing_record == Get(data, name)
                 bad_date == Truthy(birthday) /\ strptime(birthday) = ValueError
                 dated == IF Truthy(birthday) /\ ~bad_date
                          THEN [existing_record EXCEPT !.birthday = Field(birthday)]
                          ELSE existing_record
                 date_msg == If(bad_date, <<"Incorrect date format">>)
             IN  IF phones # <<>> /\ BadPhones(phones) # <<>>
                 THEN Result(SetItem(data, name, dated),
                             missing \o date_msg
                             \o <<"Phone numbers must be 11-digit">>, "")
                 ELSE Result(SetItem(data, name,
                                     IF phones # <<>>
                                     THEN [dated EXCEPT !.phones =
                                              [i \in 1..Len(phones) |-> Field(phones[i])]]
                                     ELSE dated),
                             missing \o date_msg \o <<"Changed">>, "")

\* a handle_change that adds the phones to those the record has
handle_change_extend(data, name, birthday, phones) ==
    LET missing == If(~Truthy(name), <<"Missing name">>)
    IN  IF name \notin Keys(data)
        THEN Result(data, missing \o <<"Record not found">>, "")
        ELSE LET existing_record == Get(data, name)
                 bad_date == Truthy(birthday) /\ strptime(birthday) = ValueError
                 dated == IF Truthy(birthday) /\ ~bad_date
                          THEN [existing_record EXCEPT !.birthday = Field(birthday)]
                          ELSE existing_record
                 date_msg == If(bad_date, <<"Incorrect date format">>)
             IN  IF phones # <<>> /\ BadPhones(phones) # <<>>
                 THEN Result(SetItem(data, name, dated),
                             missing \o date_msg
                             \o <<"Phone numbers must be 11-digit">>, "")
                 ELSE Result(SetItem(data, name, add_phones(dated, phones)),
                             missing \o date_msg \o <<"Changed">>, "")

\* Bot.handle_change
handle_change(data, name, birthday, phones) ==
    LET missing == If(~Truthy(name), <<"Missing name">>)
    IN  IF name \notin Keys(data)
        THEN Result(data, missing \o <<"Record not found">>, "")
        ELSE LET existing_record == Get(data, name)
                 bad_date == Truthy(birthday) /\ strptime(birthday) = ValueError
                 dated == IF Truthy(birthday) /\ ~bad_date
                          THEN [existing_record EXCEPT !.birthday = Field(birthday)]
                          ELSE existing_record
                 date_msg == If(bad_date, <<"Incorrect date format">>)
             IN  IF phones # <<>> /\ BadPhones(phones) # <<>>
                 THEN Result(SetItem(data, name, dated),
                             missing \o date_msg
                             \o <<"Phone numbers must be 11-digit">>, "")
                 ELSE Result(SetItem(data, name,
                                     IF phones # <<>>
                                     THEN [dated EXCEPT !.phones =
                                              [i \in 1..Len(phones) |-> Field(phones[i])]]
                                     ELSE dated),
                             missing \o date_msg \o <<"Changed">>, "")

\* Bot.handle_delete: args[0] is the parsed name
handle_delete(data, contactname) ==
    IF contactname \in Keys(data)
    THEN Result(delete_record(data, contactname), <<"Deleted">>, "")
    ELSE Result(data, <<"Record not found">>, "")

\* Bot.handle_search_name: args[0], the parsed name, is the query
handle_search_name(data, name) ==
    LET r == search_record(data, name)
    IN  IF r.exc # "" THEN Result(data, <<>>, r.exc)
        ELSE IF r.found # <<>> THEN Result(data, <<"Matches">>, "")
        ELSE Result(data, <<"No matching records found">>, "")

-----------------------------------------------------------------------------
(* The values the variables hold in a specification that does not use them *)

NoRecord == [name |-> None, birthday |-> None, phones |-> <<>>]

NoParse == [command |-> None, name |-> None, birthday |-> None,
            phones |-> NonePhones]

NoDate == ValueError

-----------------------------------------------------------------------------
(* main: the interactive loop *)

\* a line as typed: each argument after a blank
RECURSIVE JoinArgs(_)
JoinArgs(ts) ==
    IF ts = <<>> THEN <<>> ELSE <<" ">> \o Head(ts) \o JoinArgs(Tail(ts))

name_Al == <<"A", "l">>
name_Bo == <<"B", "o">>
birthday_leap == <<"2", "0", "2", "4", "/", "0", "2", "/", "2", "9">>
birthday_feb30 == <<"2", "0", "2", "4", "/", "0", "2", "/", "3", "0">>
phone_1 == <<"1", "2", "3", "4", "5", "6", "7", "8", "9", "0", "1">>
phone_2 == <<"5", "5", "5", "1", "2", "3", "4", "0", "0", "0", "1">>

\* the arguments typed after a keyword: a name or none, then (for add and
\* change) a birthday or none and a list of phones
NameArgs == {<<>>, <<name_Al>>, <<name_Bo>>}

BirthdayArgs == {<<>>, <<birthday_leap>>, <<birthday_feb30>>}

PhoneArgs == {<<>>, <<phone_1>>, <<phone_2, phone_1>>}

ArgsOf(keyword) ==
    IF keyword \in {kw_add, kw_change}
    THEN {n \o b \o p : n \in NameArgs, b \in BirthdayArgs, p \in PhoneArgs}
    ELSE NameArgs

\* the lines typed at the prompt
TypedLines ==
    UNION {{commands[k] \o JoinArgs(a) : a \in ArgsOf(commands[k])} :
              k \in 1..Len(commands)}
    \cup {<<"q">>, <<"E", "X", "I", "T">>, <<>>, <<"h", "i">>}

\* bot.parse_input(contact_input, bot.commands.keys()) for every typed line
ParseOf == [l \in TypedLines |-> parse_input(l, commands)]

\* contact_input.lower() in bot.exit_commands, for every typed line
IsExit == [l \in TypedLines |-> lower(l) \in exit_commands]

\* the number of records the book is let grow to
MaxRecords == 2

\* the dates datetime.now().date() gives
Todays == {[year |-> 2024, month |-> 2, day |-> 29],
           [year |-> 2024, month |-> 3, day |-> 1],
           [year |-> 2027, month |-> 11, day |-> 2]}

\* contacts.csv as main finds it: created empty, or written by a session
InitFiles ==
    {<<>>,
     <<[Name |-> name_Bo, Birthday |-> birthday_leap,
        Phones |-> str_list(<<phone_1>>)]>>}

\* main up to the loop: Bot() loads contacts.csv, main loads it once more
Init ==
    /\ pc = "prompt"
    /\ contacts_csv \in InitFiles
    /\ address_book = load_from_csv(load_from_csv(<<>>, contacts_csv), contacts_csv)
    /\ parsed = NoParse
    /\ out = <<>>
    /\ clock = NoDate
    /\ days_remaining = NoDays
    /\ returned = ""
    /\ line = <<>>
    /\ toks = <<>>
    /\ rec = NoRecord
    /\ raised = FALSE
    /\ s_query = None
    /\ s_found = <<>>

Others == <<line, toks, rec, raised, s_query, s_found>>

\* what input_error returns for the exception that escaped main
input_error(exc) ==
    IF exc \in {"KeyError", "ValueError", "IndexError"} THEN "Invalid input"
    ELSE "Exception"

\* a loop body that loses the book when the handler raises: no finally
Dispatch_nofinally(l, r, now) ==
    /\ pc = "prompt"
    /\ ~IsExit[l]
    /\ parsed' = ParseOf[l]
    /\ clock' = now
    /\ days_remaining' = r.days
    /\ address_book' = r.data
    /\ IF r.exc = ""
       THEN /\ pc' = "handled"
            /\ out' = r.out
            /\ UNCHANGED <<contacts_csv, returned>>
       ELSE /\ pc' = "done"
            /\ out' = r.out
            /\ returned' = input_error(r.exc)
            /\ UNCHANGED contacts_csv
    /\ UNCHANGED Others

\* one turn of the loop for a line that is no exit command: parse, call the
\* handler (result r); an exception leaves the loop through the finally
\* clause, which saves the book, and the wrapper of main returns a message
Dispatch(l, r, now) ==
    /\ pc = "prompt"
    /\ ~IsExit[l]
    /\ parsed' = ParseOf[l]
    /\ clock' = now
    /\ days_remaining' = r.days
    /\ address_book' = r.data
    /\ IF r.exc = ""
       THEN /\ pc' = "handled"
            /\ out' = r.out
            /\ UNCHANGED <<contacts_csv, returned>>
       ELSE /\ pc' = "done"
            /\ out' = r.out \o <<"Bye">>
            /\ returned' = input_error(r.exc)
            /\ contacts_csv' = save_to_csv(r.data)
    /\ UNCHANGED Others

\* break, then finally: save and say bye; main returns None
LeaveLoop ==
    /\ pc = "prompt"
    /\ pc' = "done"
    /\ contacts_csv' = save_to_csv(address_book)
    /\ out' = <<"Bye">>
    /\ returned' = "None"
    /\ parsed' = NoParse
    /\ clock' = NoDate
    /\ days_remaining' = NoDays
    /\ UNCHANGED address_book
    /\ UNCHANGED Others

\* contact_input.lower() in bot.exit_commands
Exit(l) == pc = "prompt" /\ IsExit[l] /\ LeaveLoop

\* the while loop goes round: the screen is cleared and the next line is
\* awaited, nothing of the last command is left but the book
NextTurn ==
    /\ pc = "handled"
    /\ pc' = "prompt"
    /\ parsed' = NoParse
    /\ out' = <<>>
    /\ clock' = NoDate
    /\ days_remaining' = NoDays
    /\ UNCHANGED <<address_book, contacts_csv, returned>>
    /\ UNCHANGED Others

\* KeyboardInterrupt raised by input
Interrupt == LeaveLoop

NotRecognized(l) ==
    /\ pc = "prompt"
    /\ ParseOf[l].command = None
    /\ \E r \in {Result(address_book, <<"Command not recognized">>, "")} :
          Dispatch(l, r, NoDate)

Help(l) ==
    /\ pc = "prompt"
    /\ ParseOf[l].command = kw_help
    /\ \E r \in {handle_help(address_book)} :
          Dispatch(l, r, NoDate)

Hello(l) ==
    /\ pc = "prompt"
    /\ ParseOf[l].command = kw_hello
    /\ \E r \in {handle_hello(address_book)} :
          Dispatch(l, r, NoDate)

ShowAll(l) ==
    /\ pc = "prompt"
    /\ ParseOf[l].command = kw_show_all
    /\ \E r \in {handle_show_all(address_book)} :
          Dispatch(l, r, NoDate)

ShowPhones(l) ==
    /\ pc = "prompt"
    /\ ParseOf[l].command = kw_show_phones
    /\ \E r \in {handle_show_phones(address_book, ParseOf[l].name)} :
          Dispatch(l, r, NoDate)

ShowBirthday(l) ==
    /\ pc = "prompt"
    /\ ParseOf[l].command = kw_show_birthday
    /\ \E r \in {handle_show_bday(address_book, ParseOf[l].name)} :
          Dispatch(l, r, NoDate)

\* datetime.now() is read only when the record has a birthday
DaysToBirthday(l) ==
    /\ pc = "prompt"
    /\ ParseOf[l].command = kw_days_to_birthday
    /\ LET name == ParseOf[l].name
       IN  IF name \in Keys(address_book) /\ Get(address_book, name).birthday # None
           THEN \E now \in Todays :
                    \E r \in {handle_d2b(address_book, name, now)} :
                        Dispatch(l, r, now)
           ELSE \E r \in {handle_d2b(address_book, name, NoDate)} :
                    Dispatch(l, r, NoDate)

Add(l) ==
    /\ pc = "prompt"
    /\ ParseOf[l].command = kw_add
    /\ Len(address_book) < MaxRecords \/ ParseOf[l].name \in Keys(address_book)
    /\ \E r \in {handle_add(address_book, ParseOf[l].name, ParseOf[l].birthday,
                              ParseOf[l].phones)} :
          Dispatch(l, r, NoDate)

Change(l) ==
    /\ pc = "prompt"
    /\ ParseOf[l].command = kw_change
    /\ \E r \in {handle_change(address_book, ParseOf[l].name,
                                 ParseOf[l].birthday, ParseOf[l].phones)} :
          Dispatch(l, r, NoDate)

Delete(l) ==
    /\ pc = "prompt"
    /\ ParseOf[l].command = kw_delete
    /\ \E r \in {handle_delete(address_book, ParseOf[l].name)} :
          Dispatch(l, r, NoDate)

SearchName(l) ==
    /\ pc = "prompt"
    /\ ParseOf[l].command = kw_search_name
    /\ \E r \in {handle_search_name(address_book, ParseOf[l].name)} :
          Dispatch(l, r, NoDate)

\* input() returns a line only when main is at the prompt
Input == IF pc = "prompt" THEN TypedLines ELSE {}

Next ==
    \/ \E l \in Input :
          \/ Exit(l)
          \/ NotRecognized(l)
          \/ Help(l)
          \/ Hello(l)
          \/ ShowAll(l)
          \/ ShowPhones(l)
          \/ ShowBirthday(l)
          \/ DaysToBirthday(l)
          \/ Add(l)
          \/ Change(l)
          \/ Delete(l)
          \/ SearchName(l)
    \/ Interrupt
    \/ NextTurn

Spec == Init /\ [][Next]_vars

-----------------------------------------------------------------------------
(* The tokenizer on its own: parse_input applied to typed lines *)

MaxTokens == 3

tok_John == <<"J", "o", "h", "n">>
tok_Mary == <<"M", "a", "r", "y">>
tok_quoted == <<"\"", "B", "o", "b", " ", "S", "m", "i", "t", "h", "\"">>
tok_birthday == <<"2", "0", "2", "5", "/", "0", "1", "/", "1", "5">>
tok_feb30 == <<"2", "0", "2", "4", "/", "0", "2", "/", "3", "0">>
tok_phone == <<"1", "2", "3", "4", "5", "6", "7", "8", "9", "0", "1">>
tok_phone555 == <<"5", "5", "5", "1", "2", "3", "4", "0", "0", "0", "1">>
tok_ten == <<"1", "2", "3", "4", "5", "6", "7", "8", "9", "0">>
tok_one == <<"1">>

TokenPool == {tok_John, tok_Mary, tok_quoted, tok_birthday, tok_feb30,
              tok_phone, tok_phone555, tok_ten, tok_one}

UpperChar(c) ==
    IF c \in Range(ascii_lowercase)
    THEN ascii_uppercase[CHOOSE i \in 1..Len(ascii_lowercase) : ascii_lowercase[i] = c]
    ELSE c

upper(s) == [i \in 1..Len(s) |-> UpperChar(s[i])]

SeqsUpTo(S, n) == UNION {[1..m -> S] : m \in 0..n}

\* the heads a line is typed with: every keyword, every leading part of a
\* keyword, the keywords in capitals and capitalized, a keyword run into the
\* next word, and nothing
TokHeads ==
    UNION {{SubSeq(commands[k], 1, n) : n \in 1..Len(commands[k])} :
              k \in 1..Len(commands)}
    \cup {upper(commands[k]) : k \in 1..Len(commands)}
    \cup {<<UpperChar(commands[k][1])>> \o Tail(commands[k]) : k \in 1..Len(commands)}
    \cup {commands[k] \o <<"s">> : k \in 1..Len(commands)}
    \cup {<<>>}

\* the heads that are typed with up to MaxTokens arguments
ArgHeads == {kw_add, kw_change, upper(kw_show_phones)}

TokLines ==
    {<<h, ts>> : h \in ArgHeads, ts \in SeqsUpTo(TokenPool, MaxTokens)}
    \cup {<<h, ts>> : h \in TokHeads, ts \in SeqsUpTo(TokenPool, 1)}

\* a line has been typed and is about to be parsed
TokInit ==
    /\ pc = "typed"
    /\ address_book = <<>>
    /\ contacts_csv = <<>>
    /\ parsed = NoParse
    /\ out = <<>>
    /\ clock = NoDate
    /\ days_remaining = NoDays
    /\ returned = ""
    /\ \E l \in TokLines :
           /\ line = l[1] \o JoinArgs(l[2])
           /\ toks = l[2]
    /\ rec = NoRecord
    /\ raised = FALSE
    /\ s_query = None
    /\ s_found = <<>>

\* bot.parse_input(contact_input, bot.commands.keys())
Tokenize ==
    /\ pc = "typed"
    /\ pc' = "parsed"
    /\ parsed' = parse_input(line, commands)
    /\ UNCHANGED <<address_book, contacts_csv, out, clock, days_remaining,
                   returned, line, toks, rec, raised, s_query, s_found>>

TokNext == Tokenize

TokSpec == TokInit /\ [][TokNext]_vars

-----------------------------------------------------------------------------
(* A Record on its own: its operations called with arbitrary strings *)

MaxPhones == 3

text_abc == <<"a", "b", "c">>

\* the strings the operations are called with: two phones, ten digits, a
\* phone followed by a newline, letters, the empty string
RecStrings == {phone_1, phone_2, tok_ten, phone_1 \o <<"\n">>, text_abc, <<>>}

RecInit ==
    /\ pc = "record"
    /\ rec = Record(name_Al, None, <<>>)
    /\ raised = FALSE
    /\ address_book = <<>>
    /\ contacts_csv = <<>>
    /\ parsed = NoParse
    /\ out = <<>>
    /\ clock = NoDate
    /\ days_remaining = NoDays
    /\ returned = ""
    /\ line = <<>>
    /\ toks = <<>>
    /\ s_query = None
    /\ s_found = <<>>

RecOthers == <<pc, address_book, contacts_csv, parsed, out, clock,
               days_remaining, returned, line, toks, s_query, s_found>>

\* Record(name, birthday, phones)
RecConstruct ==
    \E birthday \in {None, birthday_leap, birthday_feb30, text_abc} :
    \E phones \in SeqsUpTo(RecStrings, 2) :
        /\ rec' = Record(name_Al, birthday, phones)
        /\ raised' = FALSE
        /\ UNCHANGED RecOthers

\* record.add_phone(phone)
RecAddPhone ==
    \E phone \in RecStrings :
        /\ Len(rec.phones) < MaxPhones
        /\ rec' = add_phone(rec, phone)
        /\ raised' = FALSE
        /\ UNCHANGED RecOthers

\* record.edit_phone(old_phone, new_phone)
RecEditPhone ==
    \E old_phone \in RecStrings, new_phone \in RecStrings :
        /\ rec' = edit_phone(rec, old_phone, new_phone).record
        /\ raised' = edit_phone(rec, old_phone, new_phone).raised
        /\ UNCHANGED RecOthers

\* record.delete_phone(phone)
RecDeletePhone ==
    \E phone \in RecStrings :
        /\ rec' = delete_phone(rec, phone)
        /\ raised' = FALSE
        /\ UNCHANGED RecOthers

RecNext == RecConstruct \/ RecAddPhone \/ RecEditPhone \/ RecDeletePhone

RecSpec == RecInit /\ [][RecNext]_vars

-----------------------------------------------------------------------------
(* An AddressBook on its own: add_record, delete_record, search_record *)

MaxBook == 2

name_BobSmith == <<"B", "o", "b", " ", "S", "m", "i", "t", "h">>

q_555 == <<"5", "5", "5">>

\* the records handed to add_record; the last is named by its own phone
BookRecords ==
    {Record(name_BobSmith, None, <<phone_2>>),
     Record(name_BobSmith, birthday_leap, <<>>),
     Record(name_Al, None, <<phone_1, phone_2>>),
     Record(name_Al, None, <<phone_2, phone_2>>),
     Record(phone_1, None, <<phone_1>>)}

\* the queries handed to search_record
Queries == {q_555, phone_1, phone_2, <<"b", "o", "b">>, <<"S", "M", "I", "T", "H">>,
            <<"a", "l">>, <<"z">>, <<>>}

BookInit ==
    /\ pc = "book"
    /\ address_book = <<>>
    /\ s_query = None
    /\ s_found = <<>>
    /\ contacts_csv = <<>>
    /\ parsed = NoParse
    /\ out = <<>>
    /\ clock = NoDate
    /\ days_remaining = NoDays
    /\ returned = ""
    /\ line = <<>>
    /\ toks = <<>>
    /\ rec = NoRecord
    /\ raised = FALSE

BookOthers == <<pc, contacts_csv, parsed, out, clock, days_remaining, returned,
                line, toks, rec, raised>>

\* book.add_record(record); what an earlier search returned is forgotten
BookAdd ==
    \E record \in BookRecords :
        /\ Len(address_book) < MaxBook \/ record.name \in Keys(address_book)
        /\ address_book' = add_record(address_book, record)
        /\ s_query' = None
        /\ s_found' = <<>>
        /\ UNCHANGED BookOthers

\* book.delete_record(name)
BookDelete ==
    \E name \in {name_BobSmith, name_Al, phone_1} :
        /\ address_book' = delete_record(address_book, name)
        /\ s_query' = None
        /\ s_found' = <<>>
        /\ UNCHANGED BookOthers

\* book.search_record(query)
BookSearch ==
    \E q \in Queries :
        /\ s_query' = q
        /\ s_found' = search_record(address_book, q).found
        /\ UNCHANGED address_book
        /\ UNCHANGED BookOthers

BookNext == BookAdd \/ BookDelete \/ BookSearch

BookSpec == BookInit /\ [][BookNext]_vars

-----------------------------------------------------------------------------
(* The start of main on its own: contacts.csv as a session left it is      *)
(* loaded by Bot() and once more by main                                   *)

MaxRows == 2

\* the records a session can have left in the book
LoadRecords ==
    {Record(name, birthday, phones) :
        name \in {name_Al, name_Bo, None},
        birthday \in {None, birthday_leap},
        phones \in PhoneArgs}

\* the books a session can have left: up to MaxRows records, no name twice
LoadBooks ==
    {[i \in 1..Len(rs) |-> [key |-> rs[i].name, record |-> rs[i]]] :
        rs \in {rs \in SeqsUpTo(LoadRecords, MaxRows) :
                   \A i, j \in 1..Len(rs) : i # j => rs[i].name # rs[j].name}}

\* contacts.csv as the finally clause of main wrote it
LoadFiles == {save_to_csv(book) : book \in LoadBooks}

LoadInit ==
    /\ pc = "start"
    /\ contacts_csv \in LoadFiles
    /\ address_book = <<>>
    /\ parsed = NoParse
    /\ out = <<>>
    /\ clock = NoDate
    /\ days_remaining = NoDays
    /\ returned = ""
    /\ line = <<>>
    /\ toks = <<>>
    /\ rec = NoRecord
    /\ raised = FALSE
    /\ s_query = None
    /\ s_found = <<>>

LoadOthers == <<contacts_csv, parsed, out, clock, days_remaining, returned,
                line, toks, rec, raised, s_query, s_found>>

\* bot = Bot(): an empty AddressBook, then load_from_csv
BotInit ==
    /\ pc = "start"
    /\ pc' = "built"
    /\ address_book' = load_from_csv(<<>>, contacts_csv)
    /\ UNCHANGED LoadOthers

\* bot.address_book.load_from_csv('contacts.csv') in main
MainLoad ==
    /\ pc = "built"
    /\ pc' = "loaded"
    /\ address_book' = load_from_csv(address_book, contacts_csv)
    /\ UNCHANGED LoadOthers

LoadNext == BotInit \/ MainLoad

LoadSpec == LoadInit /\ [][LoadNext]_vars

-----------------------------------------------------------------------------
(* Claims about the tokenizer *)

\* the keywords that are a prefix of the lowercased line l
KeywordHits(l) ==
    {k \in 1..Len(commands) : startswith(lower(l), lower(commands[k]))}

reversed(s) == [i \in 1..Len(s) |-> s[Len(s) + 1 - i]]

\* C8: at most one of the ten command keywords is a prefix of the lowercased
\* line, so the command the tokenizer returns is that keyword whatever the
\* order in which the keywords are tried; when no keyword is a prefix the
\* command is None and name, birthday and phones are None.
C8_KeywordUnambiguous ==
    /\ Len(commands) = 10
    /\ Cardinality(KeywordHits(line)) <= 1
    /\ pc = "parsed" =>
          /\ \A k \in KeywordHits(line) : parsed.command = commands[k]
          /\ parse_input(line, reversed(commands)).command = parsed.command
          /\ KeywordHits(line) = {} => parsed = NoParse

\* C8 witness: a `show birthday` line with an argument has been parsed
C8_Witness ==
    /\ pc = "parsed"
    /\ startswith(lower(line), kw_show_birthday)
    /\ toks # <<>>
    /\ parsed.command = kw_show_birthday

\* the text of a typed token: a quoted span without its quotes
TokenText(t) ==
    IF Len(t) >= 2 /\ t[1] \in QuoteChars /\ t[Len(t)] = t[1]
    THEN SubSeq(t, 2, Len(t) - 1)
    ELSE t

OnlyLettersHyphensSpaces(t) ==
    Len(t) >= 1 /\ \A i \in 1..Len(t) : t[i] \in Letter \cup {"-", " "}

DateShaped(t) ==
    /\ Len(t) = 10
    /\ t[5] = "/" /\ t[8] = "/"
    /\ \A i \in (1..10) \ {5, 8} : t[i] \in Digit

ElevenDigits(t) == Len(t) = 11 /\ \A i \in 1..11 : t[i] \in Digit

\* the last element of ts that satisfies P, None if there is none
LastOf(ts, P(_)) ==
    LET idx == {i \in 1..Len(ts) : P(ts[i])}
    IN  IF idx = {} THEN None ELSE ts[Max(idx)]

\* the line is a keyword (in any case) followed by the typed tokens
KeywordThenTokens ==
    \E k \in 1..Len(commands) :
        /\ Len(line) >= Len(commands[k])
        /\ lower(SubSeq(line, 1, Len(commands[k]))) = commands[k]
        /\ SubSeq(line, Len(commands[k]) + 1, Len(line)) = JoinArgs(toks)

line_change_Mary == <<"c", "h", "a", "n", "g", "e", " ", "M", "a", "r", "y", " ", "2", "0", "2", "5", "/", "0", "1", "/", "1", "5", " ", "1", "2", "3", "4", "5", "6", "7", "8", "9", "0", "1">>

line_add_John == <<"a", "d", "d", " ", "J", "o", "h", "n", " ", "1", "2", "3", "4", "5", "6", "7", "8", "9", "0", " ", "1">>

\* C9: after a recognized keyword the tokenizer returns as name the last
\* token made only of letters, hyphens and spaces (None if none), as
\* birthday the last token of shape dddd/dd/dd (None if none) and as phones
\* the 11-digit tokens in their order; other tokens are dropped.  `add John
\* 1234567890 1` gives John and no phone; `change Mary 2025/01/15
\* 12345678901` gives change, Mary, 2025/01/15 and [12345678901].
C9_TokenClasses ==
    /\ (pc = "parsed" /\ KeywordThenTokens) =>
          LET texts == [i \in 1..Len(toks) |-> TokenText(toks[i])]
          IN  /\ parsed.name = LastOf(texts, OnlyLettersHyphensSpaces)
              /\ parsed.birthday = LastOf(texts, DateShaped)
              /\ parsed.phones = SelectSeq(texts, ElevenDigits)
    /\ (pc = "parsed" /\ line = line_add_John) =>
          parsed = [command |-> kw_add, name |-> tok_John, birthday |-> None,
                    phones |-> <<>>]
    /\ (pc = "parsed" /\ line = line_change_Mary) =>
          parsed = [command |-> kw_change, name |-> tok_Mary,
                    birthday |-> tok_birthday, phones |-> <<tok_phone>>]

\* C9 witness: `change Mary 2025/01/15 12345678901` has been parsed
C9_Witness == pc = "parsed" /\ line = line_change_Mary /\ Len(toks) = 3

\* C9 second witness: a line with two name tokens and a dropped token
C9_WitnessTwoNames ==
    pc = "parsed" /\ toks = <<tok_John, tok_ten, tok_quoted>> /\ KeywordThenTokens

-----------------------------------------------------------------------------
(* Claims about the session *)

Records(data) == {data[i].record : i \in 1..Len(data)}

\* the step is the handling of an `add` or `change` line
Handles(keyword) == pc = "prompt" /\ parsed'.command = keyword

\* C1: an `add` command whose name is already a key of the AddressBook
\* reports the already-exists conflict and leaves the AddressBook unchanged:
\* the record stored under that name is the same after the command as before.
C1_AddExistingKeepsRecord ==
    [][(Handles(kw_add) /\ parsed'.name \in Keys(address_book))
          => /\ "Name already exists" \in Range(out')
             /\ address_book' = address_book]_vars

\* C2: no command aborts the session: for every line that is not an exit
\* command the handler finishes without an exception escaping and the loop
\* goes on to read the next line; main returns only after an exit command or
\* an interrupt at the prompt.
C2_NoCommandAborts == pc = "done" => returned = "None"

\* the rows say what the book holds: one row per record in dict order, with
\* its name (nothing for None), its birthday (nothing for None) and a text
\* that reads back as its phones
Written(rows, data) ==
    /\ Len(rows) = Len(data)
    /\ \A i \in 1..Len(data) :
          LET record == data[i].record
          IN  /\ rows[i].Name = (IF record.name = None THEN <<>> ELSE record.name)
              /\ rows[i].Birthday =
                     (IF record.birthday = None THEN <<>> ELSE record.birthday)
              /\ rows[i].Phones[1] = "["
              /\ rows[i].Phones[Len(rows[i].Phones)] = "]"
              /\ eval(rows[i].Phones) = record.phones

\* C3: whenever the interactive loop has ended (by an exit command, by a
\* keyboard interrupt at the prompt or by an exception raised while a
\* command was handled) contacts.csv holds the AddressBook as it stood then.
C3_SavedAtEnd == pc = "done" => Written(contacts_csv, address_book)

\* C3 witness: a command raised with two records in the book, and main is over
C3_Witness ==
    /\ pc = "done"
    /\ returned \in {"Exception", "Invalid input"}
    /\ Len(address_book) = 2
    /\ contacts_csv # <<>>

\* a string in YYYY/MM/DD form that names a day of the calendar
CalendarDate(s) == MatchBirthday(s) /\ s[Len(s)] # "\n" /\ strptime(s) # ValueError

\* C4: every record that has a birthday holds a string that is a real
\* calendar date in YYYY/MM/DD form; 2024/02/30 is never stored.
C4_BirthdaysAreDates ==
    \A r \in Records(address_book) : r.birthday # None => CalendarDate(r.birthday)

\* the birthday argument of the command just parsed fails calendar validation
BadBirthdayArg == Truthy(parsed'.birthday) /\ ~CalendarDate(parsed'.birthday)

\* C6: an `add` or `change` command whose birthday argument fails calendar
\* validation leaves the AddressBook and every Record as they were: `add`
\* inserts no record, `change` alters neither birthday nor phones.
C6_ValidateThenCommit ==
    [][((Handles(kw_add) \/ Handles(kw_change)) /\ BadBirthdayArg)
          => address_book' = address_book]_vars

\* C7: an `add` command with no name token reports the missing-name error
\* and inserts nothing: the keys of the AddressBook are the same after the
\* command as before, and no record with an absent name is ever in the book.
C7_AddWithoutNameInsertsNothing ==
    /\ [][(Handles(kw_add) /\ parsed'.name = None)
             => /\ "Missing name" \in Range(out')
                /\ Keys(address_book') = Keys(address_book)]_vars
    /\ [](\A r \in Records(address_book) : r.name # None)

-----------------------------------------------------------------------------
(* Claims about a Record on its own *)

\* C5: after any sequence of Record operations called with arbitrary
\* strings, every element of the record's phone sequence is a string of
\* exactly 11 decimal digits; construction or add_phone with a string that
\* is not 11 digits fails and adds nothing.
C5_PhonesAreElevenDigits ==
    \A i \in 1..Len(rec.phones) : ElevenDigits(rec.phones[i])

-----------------------------------------------------------------------------
(* Claims about an AddressBook on its own *)

ProperPrefix(p, s) == Len(p) < Len(s) /\ startswith(s, p)

\* the book holds Bob Smith with the phone 55512340001
HasBobSmith ==
    \E i \in 1..Len(address_book) :
        /\ address_book[i].key = name_BobSmith
        /\ phone_2 \in Range(address_book[i].record.phones)

\* C10 as stated: a search whose query is a proper leading part of one of a
\* record's phones and does not occur in the record's name returns that
\* record's name at least once; search("555") with Bob Smith 55512340001 in
\* the book returns a list containing "Bob Smith".
C10_PhonePrefixFound ==
    s_query # None =>
        \A i \in 1..Len(address_book) :
            (/\ \E p \in Range(address_book[i].record.phones) :
                   ProperPrefix(s_query, p)
             /\ ~Contains(lower(address_book[i].key), lower(s_query)))
            => address_book[i].key \in Range(s_found)

\* C10 as amended: a search whose query is the whole of one of a record's
\* phones and does not occur in the record's name returns that record's name
\* at least once, and a query that is only a proper leading part of a phone
\* gets no name by that phone: with Bob Smith 55512340001 in the book,
\* search("55512340001") returns a list containing "Bob Smith" and
\* search("555") a list without it.
C10_WholePhoneFound ==
    s_query # None =>
        /\ \A i \in 1..Len(address_book) :
              (/\ s_query \in Range(address_book[i].record.phones)
               /\ ~Contains(lower(address_book[i].key), lower(s_query)))
              => address_book[i].key \in Range(s_found)
        /\ \A i \in 1..Len(address_book) :
              (/\ s_query \notin Range(address_book[i].record.phones)
               /\ ~Contains(lower(address_book[i].key), lower(s_query)))
              => address_book[i].key \notin Range(s_found)
        /\ (HasBobSmith /\ s_query = phone_2) => name_BobSmith \in Range(s_found)
        /\ (HasBobSmith /\ s_query = q_555) => name_BobSmith \notin Range(s_found)

\* C10 witness: Bob Smith 55512340001 is in the book with another record
\* and 55512340001 has been searched for
C10_Witness ==
    /\ HasBobSmith
    /\ Len(address_book) = 2
    /\ s_query = phone_2
    /\ name_BobSmith \in Range(s_found)

\* C10 second witness: 555 has been searched for with Bob Smith in the book
C10_Witness555 == HasBobSmith /\ s_query = q_555 /\ s_found = <<>>

-----------------------------------------------------------------------------
(* Claims about search, delete and the file, in the session *)

\* the names search is to return from item i on: for each record in dict
\* order its key once if the query is in the name whatever the case, and
\* once for each of its phones that is the query
RECURSIVE NamesMatching(_, _, _)
NamesMatching(data, query, i) ==
    IF i > Len(data) THEN <<>>
    ELSE LET key == data[i].key
             phones == data[i].record.phones
         IN  (IF key # None /\ Contains(lower(key), lower(query))
              THEN <<key>> ELSE <<>>)
             \o [k \in 1..Len(SelectSeq(phones, LAMBDA p : p = query)) |-> key]
             \o NamesMatching(data, query, i + 1)

\* C11: for every AddressBook and every query string, search returns the
\* names in insertion order of the records, a name once if the query is a
\* case-insensitive substring of it and once more for each phone of the
\* record that equals the query; other records do not appear, and the
\* AddressBook is left unchanged.
C11_SearchListsMatches ==
    [][(Handles(kw_search_name) /\ parsed'.name # None)
          => /\ search_record(address_book, parsed'.name)
                    = [found |-> NamesMatching(address_book, parsed'.name, 1),
                       exc |-> ""]
             /\ out' = (IF NamesMatching(address_book, parsed'.name, 1) # <<>>
                        THEN <<"Matches">> ELSE <<"No matching records found">>)
             /\ address_book' = address_book]_vars

\* C12: deleting is idempotent and total: delete(name) on an AddressBook
\* with no record under name changes nothing and raises no error, and
\* delete(name) applied twice leaves the same AddressBook as applied once,
\* with every other record untouched.
C12_DeleteIdempotent ==
    [][Handles(kw_delete)
          => LET name == parsed'.name
             IN  /\ pc' = "handled"
                 /\ returned' = returned
                 /\ address_book'
                        = SelectSeq(address_book, LAMBDA item : item.key # name)
                 /\ name \notin Keys(address_book) => address_book' = address_book
                 /\ delete_record(address_book', name) = address_book']_vars

\* C12 witness: a `delete` of a name that is not in a book of two records
\* has been handled
C12_Witness ==
    /\ pc = "handled"
    /\ parsed.command = kw_delete
    /\ parsed.name \notin Keys(address_book)
    /\ Len(address_book) = 2
    /\ out = <<"Record not found">>

\* C12 second witness: a `delete` has taken one record of two
C12_WitnessDeleted ==
    /\ pc = "handled"
    /\ parsed.command = kw_delete
    /\ out = <<"Deleted">>
    /\ Len(address_book) = 1

\* C13: saving the AddressBook a session has reached and loading the saved
\* rows into an empty AddressBook yields an equal AddressBook: the same
\* keys in the same order, each record with the same name, the same
\* birthday (absent stays absent) and the same phones in their order.
C13_RoundTrip ==
    pc = "done" => load_from_csv(<<>>, contacts_csv) = address_book

-----------------------------------------------------------------------------
(* Claims about the keys, `change`, `days to birthday` and the queries *)

\* C14: in every state reachable by handler commands and loads, every key
\* of the AddressBook equals the name value of the record stored under it,
\* and no two records share a name.
C14_KeysAreNames ==
    /\ \A i \in 1..Len(address_book) :
           address_book[i].key = address_book[i].record.name
    /\ \A i, j \in 1..Len(address_book) :
           i # j => /\ address_book[i].key # address_book[j].key
                    /\ address_book[i].record.name # address_book[j].record.name

\* C14 witness: an `add` of a name the book had has been handled, the book
\* holding two records
C14_Witness ==
    /\ pc = "handled"
    /\ parsed.command = kw_add
    /\ "Name already exists" \in Range(out)
    /\ Len(address_book) = 2

\* C15: a `change` command whose name is not a key of the AddressBook
\* reports not-found and leaves the AddressBook unchanged, whatever birthday
\* and phones are supplied.
C15_ChangeAbsentNotFound ==
    [][(Handles(kw_change) /\ parsed'.name \notin Keys(address_book))
          => /\ "Record not found" \in Range(out')
             /\ address_book' = address_book]_vars

\* C15 witness: a `change` with a birthday and phones for a name that is not
\* in a book of one record has been handled
C15_Witness ==
    /\ pc = "handled"
    /\ parsed.command = kw_change
    /\ parsed.name # None
    /\ parsed.name \notin Keys(address_book)
    /\ parsed.birthday # None
    /\ parsed.phones # <<>>
    /\ Len(address_book) = 1
    /\ "Record not found" \in Range(out)

\* the month and the day a stored birthday YYYY/MM/DD names
BirthMonth(birthday) == int(SubSeq(birthday, 6, 7))

BirthDay(birthday) == int(SubSeq(birthday, 9, 10))

\* C16: for every record with a birthday and every current date, `days to
\* birthday` computes a non-negative day count: 0 when today is the
\* birthday, 364 or 365 the day after it; a count is computed for every
\* stored birthday, February 29 in a year that is not a leap year included.
C16_DaysCounted ==
    (/\ parsed.command = kw_days_to_birthday
     /\ parsed.name \in Keys(address_book)
     /\ Get(address_book, parsed.name).birthday # None)
    => LET birthday == Get(address_book, parsed.name).birthday
           month == BirthMonth(birthday)
           day == BirthDay(birthday)
       IN  /\ pc = "handled"
           /\ days_remaining >= 0
           /\ (clock.month = month /\ clock.day = day) => days_remaining = 0
           /\ (/\ day <= days_in_month(clock.year, month)
               /\ toordinal(clock)
                     = toordinal([year |-> clock.year, month |-> month,
                                  day |-> day]) + 1)
              => days_remaining \in {364, 365}

QueryCommands == {kw_help, kw_hello, kw_show_all, kw_show_phones,
                  kw_show_birthday, kw_days_to_birthday, kw_search_name}

\* C17: the query commands (help, hello, show all, show phones, show
\* birthday, days to birthday, search name) and an unrecognized line leave
\* the AddressBook unchanged in every reachable state and for every
\* argument: only add, change and delete ever alter it.
C17_QueriesLeaveBook ==
    /\ [][(pc = "prompt" /\ parsed'.command \in QueryCommands \cup {None})
             => address_book' = address_book]_vars
    /\ [][address_book' # address_book
             => parsed'.command \in {kw_add, kw_change, kw_delete}]_vars

\* C17 witness: `show phones` for a name that is not in a book of one record
\* has been handled
C17_Witness ==
    /\ pc = "handled"
    /\ parsed.command = kw_show_phones
    /\ parsed.name # None
    /\ parsed.name \notin Keys(address_book)
    /\ Len(address_book) = 1

\* C17 second witness: a line that is no command has been handled
C17_WitnessNotRecognized ==
    /\ pc = "handled"
    /\ parsed.command = None
    /\ out = <<"Command not recognized">>
    /\ Len(address_book) = 2

\* C18: a `change` on an existing record that supplies phones replaces the
\* record's whole phone sequence with exactly the supplied phones in their
\* order; a `change` that supplies no phone leaves the phones as they were,
\* and one that supplies no birthday leaves the birthday as it was.
C18_ChangeReplacesPhones ==
    [][(Handles(kw_change) /\ parsed'.name \in Keys(address_book))
          => /\ parsed'.name \in Keys(address_book')
             /\ LET before == Get(address_book, parsed'.name)
                    after == Get(address_book', parsed'.name)
                IN  /\ parsed'.phones # <<>> => after.phones = parsed'.phones
                    /\ parsed'.phones = <<>> => after.phones = before.phones
                    /\ parsed'.birthday = None
                          => after.birthday = before.birthday]_vars

\* C18 witness: a `change` that supplies the one phone 12345678901 has been
\* handled and the record holds that phone alone
C18_Witness ==
    /\ pc = "handled"
    /\ parsed.command = kw_change
    /\ parsed.name \in Keys(address_book)
    /\ parsed.phones = <<phone_1>>
    /\ Get(address_book, parsed.name).phones = <<phone_1>>
    /\ "Changed" \in Range(out)

\* C18 second witness: a `change` that supplies neither phone nor birthday
\* has been handled on a record that has both
C18_WitnessKept ==
    /\ pc = "handled"
    /\ parsed.command = kw_change
    /\ parsed.name \in Keys(address_book)
    /\ parsed.phones = <<>>
    /\ parsed.birthday = None
    /\ Get(address_book, parsed.name).phones = <<phone_2, phone_1>>
    /\ Get(address_book, parsed.name).birthday # None

-----------------------------------------------------------------------------
(* Claims about the start of main *)

\* C19: the persisted file is loaded twice before the first command, once
\* when the Bot is built and once more in main, and the AddressBook after
\* both loads equals the AddressBook after one load: the same keys in the
\* same order, no record duplicated and no phone listed twice because of
\* the second load.
C19_LoadTwiceIsLoadOnce ==
    pc = "loaded" =>
        /\ address_book = load_from_csv(<<>>, contacts_csv)
        /\ Len(address_book) = Len(contacts_csv)
        /\ \A i \in 1..Len(address_book) :
               /\ address_book[i].key = contacts_csv[i].Name
               /\ address_book[i].record.phones = eval(contacts_csv[i].Phones)

\* C19 witness: a file of two rows, one of them with two phones, has been
\* loaded twice
C19_Witness ==
    /\ pc = "loaded"
    /\ Len(contacts_csv) = 2
    /\ Len(address_book) = 2
    /\ \E i \in 1..2 : address_book[i].record.phones = <<phone_2, phone_1>>

====
